---- MODULE Spec2Model ----
(***************************************************************************)
(* Model of the sos report plugin for podman                               *)
(* (sos/report/plugins/podman.py): Podman.setup, which resolves the users  *)
(* to collect for, discovers their containers, images, volumes and         *)
(* networks from command output and queues the commands to collect, and    *)
(* Podman.postproc, which masks sensitive values in inspect output.        *)
(*                                                                         *)
(* A text is a sequence of one-character strings; the fixed parts of a     *)
(* command line or a subdir are kept as whole strings inside that          *)
(* sequence.                                                               *)
(***************************************************************************)
EXTENDS Integers, Sequences, FiniteSets, TLC

VARIABLES
    opts,        \* the plugin options all, logs, size, allusers
    pc,          \* position inside setup / postproc
    users,       \* the local list users of setup
    idx,         \* position of the for loop over users (1-based)
    command,     \* the local command: "" for root, "sudo -u <user>" otherwise
    containers,  \* the local list containers of the current iteration
    images,      \* the local list images: tuples <<name, id>>
    volumes,     \* the local list volumes
    plan,        \* commands queued by add_cmd_output / collect_cmd_output
    cmdTags,     \* tags registered by add_cmd_tags: <<command text, tag>>
    dirListing,  \* directories passed to add_dir_listing
    execLog,     \* command texts run by exec_cmd / collect_cmd_output, in order
    loginRes,    \* what "lslogins" returned (<<>> when it was not run)
    last,        \* the command result the last step consumed (<<>> when none)
    skipped,     \* users dropped by the liveness probe, in order
    failed,      \* <<user, kind>> of the listings that returned a nonzero status
    raised,      \* where an IndexError ended setup ("" when none did)
    blob,        \* postproc: text of one collected command output
    blobCmd,     \* postproc: TRUE when that command matches the glob *inspect*
    orig,        \* postproc: the text as collected
    passes       \* postproc: number of substitution passes applied

setupVars == <<opts, pc, users, idx, command, containers, images, volumes,
               plan, cmdTags, dirListing, execLog, loginRes, last, skipped,
               failed, raised>>
redactVars == <<blob, blobCmd, orig, passes>>
vars == <<opts, pc, users, idx, command, containers, images, volumes,
          plan, cmdTags, dirListing, execLog, loginRes, last, skipped,
          failed, raised, blob, blobCmd, orig, passes>>

----------------------------------------------------------------------------
(* Bounds of the model *)

\* rows after the header line of a listing (lines of a listing without header)
MaxRows == 1
\* lines of the lslogins output
MaxLogins == 2
\* pieces a collected text is put together from
MaxChunks == 5
\* substitution passes over one collected text
MaxPasses == 2

----------------------------------------------------------------------------
(* Python string operations used by the plugin *)

IsSpace(c) == c \in {" ", "\n"}

\* str.lstrip / str.rstrip / str.strip with no argument
RECURSIVE lstrip(_)
lstrip(s) == IF s # <<>> /\ IsSpace(Head(s)) THEN lstrip(Tail(s)) ELSE s

RECURSIVE rstrip(_)
rstrip(s) ==
    IF s # <<>> /\ IsSpace(s[Len(s)]) THEN rstrip(SubSeq(s, 1, Len(s) - 1)) ELSE s

strip(s) == rstrip(lstrip(s))

\* str.split("\n"): always at least one piece, empty pieces kept
RECURSIVE SplitNLAcc(_, _, _)
SplitNLAcc(s, cur, acc) ==
    IF s = <<>> THEN Append(acc, cur)
    ELSE IF Head(s) = "\n" THEN SplitNLAcc(Tail(s), <<>>, Append(acc, cur))
    ELSE SplitNLAcc(Tail(s), Append(cur, Head(s)), acc)

SplitNL(s) == SplitNLAcc(s, <<>>, <<>>)

\* str.splitlines(): as split("\n"), without the empty piece after a final "\n"
splitlines(s) ==
    LET p == SplitNL(s)
    IN  IF p[Len(p)] = <<>> THEN SubSeq(p, 1, Len(p) - 1) ELSE p

\* str.split() with no argument: runs of whitespace separate, no empty fields
RECURSIVE SplitAcc(_, _, _)
SplitAcc(s, cur, acc) ==
    IF s = <<>> THEN (IF cur = <<>> THEN acc ELSE Append(acc, cur))
    ELSE IF IsSpace(Head(s))
         THEN SplitAcc(Tail(s), <<>>, IF cur = <<>> THEN acc ELSE Append(acc, cur))
         ELSE SplitAcc(Tail(s), Append(cur, Head(s)), acc)

split(s) == SplitAcc(s, <<>>, <<>>)

\* the Python test  w in s  on strings
Contains(s, w) ==
    \E i \in 1..(Len(s) - Len(w) + 1) : SubSeq(s, i, i + Len(w) - 1) = w

\* list[1:]
Rest(l) == IF l = <<>> THEN <<>> ELSE Tail(l)

\* [f(x) for x in l]
RECURSIVE Concat(_)
Concat(ls) == IF ls = <<>> THEN <<>> ELSE Head(ls) \o Concat(Tail(ls))

\* a text made of lines, each ended by a newline
Lines(ls) == Concat([i \in 1..Len(ls) |-> Append(ls[i], "\n")])

\* the sequences over S of length at most n
SeqsUpTo(S, n) == UNION {[1..k -> S] : k \in 0..n}

----------------------------------------------------------------------------
(* Names and command results *)

Root == <<"r", "o", "o", "t">>
None == <<"n", "o", "n", "e">>
\* podman prints <none> for the repository and tag of an untagged image
NonePlaceholder == <<"<">> \o None \o <<">">>

UserA == <<"a">>

Result(st, out) == [status |-> st, output |-> out]
Failed == Result(1, <<>>)

\* a function as a sequence: the distinct-element sequences over S, length <= n
DistinctSeqs(S, n) ==
    {q \in SeqsUpTo(S, n) : \A i, j \in 1..Len(q) : q[i] = q[j] => i = j}

\* lslogins -u --noheadings: UID then USER; one line has the USER column missing
LoginLines == {<<"0", " ">> \o Root, <<"1", " ">> \o UserA, <<"3">>}
LoginResults ==
    {Failed} \cup {Result(0, Lines(ls)) : ls \in DistinctSeqs(LoginLines, MaxLogins)}

\* podman ps -aq under a user: container ids, one per line
ProbeResults ==
    {Failed, Result(1, <<"c", "\n">>), Result(0, <<>>), Result(0, <<" ", "\n">>),
     Result(0, <<"c", "\n">>)}

Header == <<"H", " ", "H">>

\* a listing: nothing at all, or the header line and up to MaxRows rows; a
\* command that fails may have printed something before
Listings(rows) ==
    {Failed, Result(1, Lines(<<Header, Header>>)), Result(0, <<>>)}
        \cup {Result(0, Lines(<<Header>> \o rs)) : rs \in SeqsUpTo(rows, MaxRows)}

NetResults == Listings({<<"n", " ", "b">>, <<>>})
PsResults == Listings({<<"c", " ", "x">>, <<" ">>})
ImageResults ==
    Listings({<<"r", " ", "t", " ", "i">>,
              NonePlaceholder \o <<" ">> \o NonePlaceholder \o <<" ", "j">>,
              None \o <<"x", " ", "t", " ", "k">>,
              <<"r", " ", "t">>,
              <<>>})
VolumeResults ==
    {Failed, Result(1, Lines(<< <<"v">> >>))} \cup {Result(0, Lines(ls)) : ls \in SeqsUpTo({<<"v">>, <<>>}, MaxRows)}

\* what the report framework holds for root: get_containers gives (id, name)
\* tuples, get_container_images (name, id) tuples, get_container_volumes names
RootInventories ==
    { [containers |-> <<>>, images |-> <<>>, volumes |-> <<>>],
      [containers |-> << << <<"c">>, <<"w">> >> >>,
       images |-> << << <<"r", ":", "t">>, <<"i">> >>,
                     << NonePlaceholder \o <<":">> \o NonePlaceholder, <<"j">> >> >>,
       volumes |-> << <<"v">> >>] }

----------------------------------------------------------------------------
(* The pieces of setup *)

\* f"{command} podman {s}"
Cmd(prefix, s) == prefix \o <<" podman ">> \o s

\* command = "sudo -u " + user
Sudo(user) == <<"sudo -u ">> \o user

\* a subdir that leaves the user out
SubdirShared(user, sub) == <<"/">> \o sub

\* subdir=f'{user}/...'
Subdir(user, sub) == user \o <<"/">> \o sub

CmdSpec(c, sd, tg, pr, u) ==
    [cmd |-> c, subdir |-> sd, tags |-> tg, priority |-> pr, owner |-> u]

LsLogins == <<"lslogins -u --noheadings">>

\* the list comprehension over the lslogins output raises IndexError on a line
\* without a second field
UsersRaises(out) == \E i \in DOMAIN splitlines(out) : Len(split(splitlines(out)[i])) < 2

NonEmpty(f) == f # <<>>
ParseUsers(out) ==
    LET ls == splitlines(out)
        names == [i \in 1..Len(ls) |-> strip(split(ls[i])[2])]
    IN  SelectSeq(names, NonEmpty)

subcmds == << "info", "image trust show", "images", "images --digests", "pod ps",
              "port --all", "ps", "ps -a", "stats --no-stream --all", "version",
              "volume ls", "system df -v" >>

\* a liveness test that looks at the status alone
ProbeFailsStatusOnly(r) == r.status # 0

\* the liveness test of a user other than root
ProbeFails(r) == r.status # 0 \/ strip(r.output) = <<>>

CatalogTags(prefix) ==
    { <<Cmd(prefix, <<"images">>), "podman_list_images">>,
      <<Cmd(prefix, <<"ps">>), "podman_list_containers">> }

CatalogSpecs(prefix, user) ==
    [i \in 1..Len(subcmds) |->
        CmdSpec(Cmd(prefix, <<subcmds[i]>>), Subdir(user, <<>>), {}, {}, user)]

SizePriority == 100
\* ps -as queued whatever the size option says
SizeSpecsAlways(prefix, user, size) ==
    << CmdSpec(Cmd(prefix, <<"ps -as">>), Subdir(user, <<>>), {}, {SizePriority}, user) >>

SizeSpecs(prefix, user, size) ==
    IF size
    THEN << CmdSpec(Cmd(prefix, <<"ps -as">>), Subdir(user, <<>>), {},
                    {SizePriority}, user) >>
    ELSE <<>>

\* pn.split()[0] raises IndexError on a line without any field
NetsRaises(out) ==
    LET ls == Rest(splitlines(out)) IN \E i \in DOMAIN ls : split(ls[i]) = <<>>
ParseNets(out) ==
    LET ls == Rest(splitlines(out)) IN [i \in 1..Len(ls) |-> split(ls[i])[1]]

\* the network inspect commands, none unless the listing returned status 0
NetsOf(r) == IF r.status = 0 THEN ParseNets(r.output) ELSE <<>>

NetListSpec(prefix, user) ==
    CmdSpec(Cmd(prefix, <<"network ls">>), Subdir(user, <<"networks">>),
            {"podman_list_networks"}, {}, user)
NetInspectSpecs(prefix, user, nets) ==
    [i \in 1..Len(nets) |->
        CmdSpec(Cmd(prefix, <<"network inspect ">> \o nets[i]),
                Subdir(user, <<"networks">>), {"podman_network_inspect"}, {}, user)]

NonBlank(l) == strip(l) # <<>>
ParseContainers(out) ==
    LET ls == SelectSeq(Rest(splitlines(out)), NonBlank)
    IN  [i \in 1..Len(ls) |-> split(ls[i])[1]]

\* a container list parsed whatever the status
ContainersOfAnyStatus(r) == ParseContainers(r.output)

\* containers = [] unless the listing returned status 0
ContainersOf(r) == IF r.status = 0 THEN ParseContainers(r.output) ELSE <<>>

PsCmd(prefix, all) ==
    IF all THEN Cmd(prefix, <<"ps -a">>) ELSE Cmd(prefix, <<"ps">>)

\* image[0], image[1], image[2] raise IndexError on a row of fewer than 3 fields
ImageRows(out) == Rest(SplitNL(strip(out)))
ImagesRaises(out) ==
    \E i \in DOMAIN ImageRows(out) : Len(split(ImageRows(out)[i])) < 3
ParseImages(out) ==
    LET rows == ImageRows(out)
    IN  [i \in 1..Len(rows) |->
            LET image == split(rows[i])
            IN  << image[1] \o <<":">> \o image[2], image[3] >>]

\* images = [] unless the listing returned status 0
ImagesOf(r) == IF r.status = 0 THEN ParseImages(r.output) ELSE <<>>

ImageListSpec(prefix, user) ==
    CmdSpec(Cmd(prefix, <<"images --no-trunc">>), Subdir(user, <<>>), {}, {}, user)

VolumeLsCmd(prefix) == Cmd(prefix, <<"volume ls --format \"{{.Name}}\"">>)
ParseVolumes(out) == SelectSeq(splitlines(out), NonBlank)
\* volumes = [] unless the listing returned status 0
VolumesOf(r) == IF r.status = 0 THEN ParseVolumes(r.output) ELSE <<>>

\* insp = name if 'none' not in name else img_id
InspectTarget(name, img_id) == IF ~Contains(name, None) THEN name ELSE img_id

ContainerSpecs(prefix, user, cs) ==
    [i \in 1..Len(cs) |->
        CmdSpec(Cmd(prefix, <<"inspect ">> \o cs[i]), Subdir(user, <<"containers">>),
                {"podman_container_inspect"}, {}, user)]

ImageSpecs(prefix, user, is) ==
    Concat([i \in 1..Len(is) |->
        LET insp == InspectTarget(is[i][1], is[i][2])
        IN  << CmdSpec(Cmd(prefix, <<"inspect ">> \o insp),
                       Subdir(user, <<"images">>), {"podman_image_inspect"}, {}, user),
               CmdSpec(Cmd(prefix, <<"image tree ">> \o insp),
                       Subdir(user, <<"images/tree">>), {"podman_image_tree"}, {},
                       user) >>])

VolumeSpecs(prefix, user, vs) ==
    [i \in 1..Len(vs) |->
        CmdSpec(Cmd(prefix, <<"volume inspect ">> \o vs[i]),
                Subdir(user, <<"volumes">>), {"podman_volume_inspect"}, {}, user)]

LogsPriority == 50
LogSpecs(prefix, user, cs, logs) ==
    IF logs
    THEN [i \in 1..Len(cs) |->
            CmdSpec(Cmd(prefix, <<"logs -t ">> \o cs[i]),
                    Subdir(user, <<"containers">>), {}, {LogsPriority}, user)]
    ELSE <<>>

----------------------------------------------------------------------------
(* Podman.setup *)

OptionSets == [all : BOOLEAN, logs : BOOLEAN, size : BOOLEAN, allusers : BOOLEAN]

InitSetup ==
    /\ opts \in OptionSets
    /\ pc = "resolve"
    /\ users = <<>>
    /\ idx = 1
    /\ command = <<>>
    /\ containers = <<>>
    /\ images = <<>>
    /\ volumes = <<>>
    /\ plan = <<>>
    /\ cmdTags = {}
    /\ dirListing = <<>>
    /\ execLog = <<>>
    /\ loginRes = <<>>
    /\ last = <<>>
    /\ skipped = <<>>
    /\ failed = {}
    /\ raised = ""

Init ==
    /\ InitSetup
    /\ blob = <<>>
    /\ blobCmd = FALSE
    /\ orig = <<>>
    /\ passes = 0

\* users = ['root']; with allusers, the users that lslogins lists
ResolveUsers ==
    /\ pc = "resolve"
    /\ IF ~opts.allusers
       THEN /\ users' = <<Root>>
            /\ pc' = "dirs"
            /\ UNCHANGED <<loginRes, execLog, raised>>
       ELSE \E r \in LoginResults :
            /\ loginRes' = <<r>>
            /\ execLog' = Append(execLog, LsLogins)
            /\ IF r.status = 0 /\ UsersRaises(r.output)
               THEN users' = <<Root>> /\ pc' = "aborted" /\ raised' = "users"
               ELSE /\ users' = IF r.status = 0 THEN ParseUsers(r.output) ELSE <<Root>>
                    /\ pc' = "dirs"
                    /\ UNCHANGED raised
    /\ UNCHANGED <<opts, idx, command, containers, images, volumes, plan, cmdTags,
                   dirListing, last, skipped, failed, redactVars>>

AddDirListing ==
    /\ pc = "dirs"
    /\ dirListing' = <<"/etc/cni", "/etc/containers">>
    /\ pc' = "loop"
    /\ UNCHANGED <<opts, users, idx, command, containers, images, volumes, plan,
                   cmdTags, execLog, loginRes, last, skipped, failed, raised,
                   redactVars>>

\* the head of  for user in users,  down to the liveness probe
NextUser ==
    /\ pc = "loop"
    /\ IF idx > Len(users)
       THEN /\ pc' = "done"
            /\ UNCHANGED <<idx, command, execLog, last, skipped>>
       ELSE LET user == users[idx] IN
            IF user = <<>>
            THEN /\ idx' = idx + 1
                 /\ UNCHANGED <<pc, command, execLog, last, skipped>>
            ELSE IF user = Root
            THEN /\ command' = <<>>
                 /\ pc' = "catalog"
                 /\ last' = <<>>
                 /\ UNCHANGED <<idx, execLog, skipped>>
            ELSE \E r \in ProbeResults :
                 /\ command' = Sudo(user)
                 /\ execLog' = Append(execLog, Cmd(Sudo(user), <<"ps -aq">>))
                 /\ last' = <<r>>
                 /\ IF ProbeFails(r)
                    THEN /\ idx' = idx + 1
                         /\ skipped' = Append(skipped, user)
                         /\ UNCHANGED pc
                    ELSE /\ pc' = "catalog"
                         /\ UNCHANGED <<idx, skipped>>
    /\ UNCHANGED <<opts, users, containers, images, volumes, plan, cmdTags,
                   dirListing, loginRes, failed, raised, redactVars>>

\* add_cmd_tags, the fixed sub-commands and ps -as
Catalog ==
    /\ pc = "catalog"
    /\ cmdTags' = cmdTags \cup CatalogTags(command)
    /\ plan' = plan \o CatalogSpecs(command, users[idx])
                    \o SizeSpecs(command, users[idx], opts.size)
    /\ pc' = "networks"
    /\ UNCHANGED <<opts, users, idx, command, containers, images, volumes,
                   dirListing, execLog, loginRes, last, skipped, failed, raised,
                   redactVars>>

\* the kinds whose listing returned a nonzero status, per user
Note(r, user, kind) == IF r.status # 0 THEN failed \cup {<<user, kind>>} ELSE failed

\* network ls and the network inspect commands
Networks ==
    /\ pc = "networks"
    /\ \E r \in NetResults :
        LET user == users[idx]
            listed == Append(plan, NetListSpec(command, user))
        IN  /\ execLog' = Append(execLog, Cmd(command, <<"network ls">>))
            /\ last' = <<r>>
            /\ failed' = Note(r, user, "network")
            /\ IF r.status = 0 /\ NetsRaises(r.output)
               THEN plan' = listed /\ pc' = "aborted" /\ raised' = "networks"
               ELSE /\ plan' = listed \o NetInspectSpecs(command, user, NetsOf(r))
                    /\ pc' = IF user = Root THEN "inventory" ELSE "containers"
                    /\ UNCHANGED raised
    /\ UNCHANGED <<opts, users, idx, command, containers, images, volumes, cmdTags,
                   dirListing, loginRes, skipped, redactVars>>

\* root: containers, images and volumes as the framework knows them
Inventory ==
    /\ pc = "inventory"
    /\ \E inv \in RootInventories :
        /\ containers' = [i \in 1..Len(inv.containers) |-> inv.containers[i][1]]
        /\ images' = inv.images
        /\ volumes' = inv.volumes
    /\ last' = <<>>
    /\ pc' = "emit"
    /\ UNCHANGED <<opts, users, idx, command, plan, cmdTags, dirListing, execLog,
                   loginRes, skipped, failed, raised, redactVars>>

\* another user: podman ps / ps -a
DiscoverContainers ==
    /\ pc = "containers"
    /\ \E r \in PsResults :
        /\ execLog' = Append(execLog, PsCmd(command, opts.all))
        /\ last' = <<r>>
        /\ failed' = Note(r, users[idx], "container")
        /\ containers' = ContainersOf(r)
    /\ pc' = "images"
    /\ UNCHANGED <<opts, users, idx, command, images, volumes, plan, cmdTags,
                   dirListing, loginRes, skipped, raised, redactVars>>

\* another user: podman images --no-trunc
DiscoverImages ==
    /\ pc = "images"
    /\ \E r \in ImageResults :
        /\ execLog' = Append(execLog, Cmd(command, <<"images --no-trunc">>))
        /\ plan' = Append(plan, ImageListSpec(command, users[idx]))
        /\ last' = <<r>>
        /\ failed' = Note(r, users[idx], "image")
        /\ volumes' = <<>>
        /\ IF r.status = 0 /\ ImagesRaises(r.output)
           THEN images' = <<>> /\ pc' = "aborted" /\ raised' = "images"
           ELSE images' = ImagesOf(r) /\ pc' = "volumes" /\ UNCHANGED raised
    /\ UNCHANGED <<opts, users, idx, command, containers, cmdTags, dirListing,
                   loginRes, skipped, redactVars>>

\* another user: podman volume ls
DiscoverVolumes ==
    /\ pc = "volumes"
    /\ \E r \in VolumeResults :
        /\ execLog' = Append(execLog, VolumeLsCmd(command))
        /\ last' = <<r>>
        /\ failed' = Note(r, users[idx], "volume")
        /\ volumes' = VolumesOf(r)
    /\ pc' = "emit"
    /\ UNCHANGED <<opts, users, idx, command, containers, images, plan, cmdTags,
                   dirListing, loginRes, skipped, raised, redactVars>>

\* the inspect, image tree and logs commands of the entities found
EmitEntities ==
    /\ pc = "emit"
    /\ plan' = plan \o ContainerSpecs(command, users[idx], containers)
                    \o ImageSpecs(command, users[idx], images)
                    \o VolumeSpecs(command, users[idx], volumes)
                    \o LogSpecs(command, users[idx], containers, opts.logs)
    /\ idx' = idx + 1
    /\ pc' = "loop"
    /\ UNCHANGED <<opts, users, command, containers, images, volumes, cmdTags,
                   dirListing, execLog, loginRes, last, skipped, failed, raised,
                   redactVars>>

Next ==
    \/ ResolveUsers
    \/ AddDirListing
    \/ NextUser
    \/ Catalog
    \/ Networks
    \/ Inventory
    \/ DiscoverContainers
    \/ DiscoverImages
    \/ DiscoverVolumes
    \/ EmitEntities

Spec == Init /\ [][Next]_vars

----------------------------------------------------------------------------
(* Podman.postproc *)

\* the alternatives of the group inside var, in the order of the pattern
SensitiveWords ==
    << <<"p", "a", "s", "s">>, <<"k", "e", "y">>, <<"s", "e", "c", "r", "e", "t">>,
       <<"P", "A", "S", "S">>, <<"K", "E", "Y">>, <<"S", "E", "C", "R", "E", "T">> >>

\* length of the first alternative that matches at position i, 0 when none does
WordAt(s, i) ==
    LET hit == {k \in DOMAIN SensitiveWords :
                    /\ i + Len(SensitiveWords[k]) - 1 <= Len(s)
                    /\ SubSeq(s, i, i + Len(SensitiveWords[k]) - 1) = SensitiveWords[k]}
    IN  IF hit = {} THEN 0
        ELSE Len(SensitiveWords[CHOOSE k \in hit : \A h \in hit : k <= h])

\* .*?c : the first c at or after position from, no newline before it (the dot
\* matches no newline); 0 when there is none
FirstOnLine(s, from, c) ==
    LET hit == {j \in from..Len(s) :
                    /\ s[j] = c
                    /\ \A k \in from..(j - 1) : s[k] # "\n" /\ s[k] # c}
    IN  IF hit = {} THEN 0 ELSE CHOOSE j \in hit : TRUE

\* env_regexp matched at position i: where its = and its closing quote are
EnvRegexpMatch(s, i) ==
    LET w == WordAt(s, i)
        e == IF w = 0 THEN 0 ELSE FirstOnLine(s, i + w, "=")
        q == IF e = 0 THEN 0 ELSE FirstOnLine(s, e + 1, "\"")
    IN  [found |-> q # 0, eq |-> e, quote |-> q]

Mask == <<"*", "*", "*", "*", "*", "*", "*", "*">>

\* a replacement that loses the closing quote
ReplacementNoQuote(var) == var \o <<"=">> \o Mask

\* r'\g<var>=********"'
Replacement(var) == var \o <<"=">> \o Mask \o <<"\"">>

\* re.sub over the text: leftmost matches, left to right, without overlap
RECURSIVE SubFrom(_, _)
SubFrom(s, i) ==
    IF i > Len(s) THEN <<>>
    ELSE LET m == EnvRegexpMatch(s, i)
         IN  IF m.found
             THEN Replacement(SubSeq(s, i, m.eq - 1)) \o SubFrom(s, m.quote + 1)
             ELSE <<s[i]>> \o SubFrom(s, i + 1)

\* do_cmd_output_sub('*inspect*', env_regexp, ...) on the output of one command
DoCmdOutputSub(matches, text) == IF matches THEN SubFrom(text, 1) ELSE text

Chunks ==
    { <<"p", "a", "s", "s">>, <<"K", "E", "Y">>, <<"P", "a", "s", "s">>, <<"x">>,
      <<"=">>, <<"\"">>, <<"\n">> }
Blobs == {Concat(cs) : cs \in SeqsUpTo(Chunks, MaxChunks)}

InitRedact ==
    /\ opts = [all |-> FALSE, logs |-> FALSE, size |-> FALSE, allusers |-> FALSE]
    /\ pc = "postproc"
    /\ users = <<>>
    /\ idx = 1
    /\ command = <<>>
    /\ containers = <<>>
    /\ images = <<>>
    /\ volumes = <<>>
    /\ plan = <<>>
    /\ cmdTags = {}
    /\ dirListing = <<>>
    /\ execLog = <<>>
    /\ loginRes = <<>>
    /\ last = <<>>
    /\ skipped = <<>>
    /\ failed = {}
    /\ raised = ""
    /\ blob \in Blobs
    /\ orig = blob
    /\ blobCmd \in BOOLEAN
    /\ passes = 0

\* one run of postproc over the collected text
Postproc ==
    /\ pc = "postproc"
    /\ passes < MaxPasses
    /\ blob' = DoCmdOutputSub(blobCmd, blob)
    /\ passes' = passes + 1
    /\ UNCHANGED <<setupVars, blobCmd, orig>>

NextRedact == Postproc

SpecRedact == InitRedact /\ [][NextRedact]_vars

----------------------------------------------------------------------------
(* What the properties speak about *)

\* the queued commands of a user that carry a tag
Tagged(u, tag) == SelectSeq(plan, LAMBDA s : s.owner = u /\ tag \in s.tags)

IsSizeCmd(s) == s.cmd[Len(s.cmd)] = "ps -as"
IsLogsCmd(s) == \E k \in DOMAIN s.cmd : s.cmd[k] = "logs -t "

\* the per-entity commands of one kind
KindTags(kind) ==
    CASE kind = "network" -> {"podman_network_inspect"}
      [] kind = "container" -> {"podman_container_inspect"}
      [] kind = "image" -> {"podman_image_inspect", "podman_image_tree"}
      [] kind = "volume" -> {"podman_volume_inspect"}
PerEntity(u, kind) ==
    SelectSeq(plan, LAMBDA s :
        /\ s.owner = u
        /\ \/ s.tags \cap KindTags(kind) # {}
           \/ kind = "container" /\ IsLogsCmd(s))

IsSkipped(u) == \E i \in DOMAIN skipped : skipped[i] = u

\* the commands run under sudo -u <u>
ExecsOf(u) ==
    SelectSeq(execLog, LAMBDA c :
        Len(c) >= Len(Sudo(u)) /\ SubSeq(c, 1, Len(Sudo(u))) = Sudo(u))

InIteration == {"networks", "inventory", "containers", "images", "volumes", "emit"}

\* the iteration of users[i] got past the liveness probe
Begun(i) ==
    /\ ~IsSkipped(users[i])
    /\ \/ i < idx
       \/ i = idx /\ pc \in InIteration
       \/ i = idx /\ pc = "aborted" /\ raised # "users"

\* the iteration of users[idx - 1] has just ended with its commands queued
JustEmitted == pc \in {"loop", "done"} /\ idx > 1 /\ ~IsSkipped(users[idx - 1])

HasText(t) == \E i \in DOMAIN t : t[i] \notin {" ", "\n"}
BlankLine(l) == \A i \in DOMAIN l : l[i] \in {" ", "\n"}
Count(q, P(_)) == Cardinality({i \in DOMAIN q : P(q[i])})

----------------------------------------------------------------------------
(* C1 *)

\* the second fields of the lines that have one, root left out
Candidates ==
    IF loginRes = <<>> \/ loginRes[1].status # 0 THEN <<>>
    ELSE LET ls == SelectSeq(splitlines(loginRes[1].output),
                             LAMBDA l : Len(split(l)) >= 2)
             names == [i \in 1..Len(ls) |-> split(ls[i])[2]]
         IN  SelectSeq(names, LAMBDA n : n # Root)

\* C1: whatever allusers is and whatever lslogins returns, the users that setup
\* goes through are root, exactly once and first, and then the other users
\* that lslogins lists, in the order of its output.
C1_RootFirstExactlyOnce ==
    pc # "resolve" =>
        /\ users # <<>>
        /\ users[1] = Root
        /\ Cardinality({i \in DOMAIN users : users[i] = Root}) = 1
        /\ Tail(users) = Candidates

----------------------------------------------------------------------------
(* C2 *)

ProbeGood(r) == r.status = 0 /\ HasText(r.output)

Untouched(u) ==
    /\ \A i \in DOMAIN plan : plan[i].owner # u
    /\ \A t \in cmdTags : t[1] \notin {Cmd(Sudo(u), <<"images">>), Cmd(Sudo(u), <<"ps">>)}

\* C2: a user other than root is processed exactly when podman ps -aq under
\* that user returns status 0 and output that is not blank; a user whose probe
\* fails or prints nothing gets no command queued, no tag and no further
\* command run, and the loop goes on with the next user.
C2_ProbeDecides ==
    /\ (pc = "catalog" /\ users[idx] # Root) => (last # <<>> /\ ProbeGood(last[1]))
    /\ (pc = "loop" /\ idx > 1 /\ IsSkipped(users[idx - 1]))
            => (last # <<>> /\ ~ProbeGood(last[1]))
    /\ \A i \in DOMAIN users :
        users[i] # Root =>
            /\ IsSkipped(users[i]) =>
                    /\ i < idx
                    /\ Untouched(users[i])
                    /\ ExecsOf(users[i]) = << Cmd(Sudo(users[i]), <<"ps -aq">>) >>
            /\ (i < idx /\ ~IsSkipped(users[i])) =>
                    /\ CatalogTags(Sudo(users[i])) \subseteq cmdTags
                    /\ Count(plan, LAMBDA s : s.owner = users[i]) >= Len(subcmds)
            /\ (i > idx \/ (i = idx /\ pc = "loop")) =>
                    Untouched(users[i]) /\ ExecsOf(users[i]) = <<>>
    /\ pc = "done" => idx = Len(users) + 1

\* a dropped user followed by a processed one, and the loop ran to its end
C2_Witness ==
    /\ pc = "done"
    /\ Len(users) = 2
    /\ users[1] = UserA
    /\ IsSkipped(UserA)
    /\ \E i \in DOMAIN plan : plan[i].owner = users[2]

----------------------------------------------------------------------------
(* C3 *)

WellFormed(ls, n) == SelectSeq(ls, LAMBDA l : Len(split(l)) >= n)

\* C3: in the lslogins output (two fields a row) and in the image listing of
\* another user (three fields a row), a row with fewer fields is skipped, setup
\* goes on, and every other row still gives a user or an image.
C3_ShortRowsSkipped ==
    /\ raised \notin {"users", "images"}
    /\ (pc # "resolve" /\ loginRes # <<>> /\ loginRes[1].status = 0) =>
            Len(users) = Len(WellFormed(splitlines(loginRes[1].output), 2))
    /\ (pc = "volumes" /\ last[1].status = 0) =>
            Len(images) = Len(WellFormed(ImageRows(last[1].output), 3))

----------------------------------------------------------------------------
(* C4 *)

LastColon(name) ==
    LET cs == {i \in DOMAIN name : name[i] = ":"}
    IN  IF cs = {} THEN Len(name) + 1 ELSE CHOOSE i \in cs : \A j \in cs : j <= i
RepoOf(name) == SubSeq(name, 1, LastColon(name) - 1)

\* the target the claim gives an image
ClaimedTarget(img) ==
    IF RepoOf(img[1]) \in {None, NonePlaceholder} THEN img[2] ELSE img[1]

\* C4: podman inspect and podman image tree are given the image id exactly when
\* the repository of the image is the none placeholder, and repository:tag in
\* every other case.
C4_TargetIsIdIffRepoNone ==
    JustEmitted =>
        LET u == users[idx - 1]
            insp == Tagged(u, "podman_image_inspect")
            tree == Tagged(u, "podman_image_tree")
        IN  /\ Len(insp) = Len(images)
            /\ Len(tree) = Len(images)
            /\ \A k \in DOMAIN images :
                /\ insp[k].cmd = Cmd(command, <<"inspect ">> \o ClaimedTarget(images[k]))
                /\ tree[k].cmd
                     = Cmd(command, <<"image tree ">> \o ClaimedTarget(images[k]))

----------------------------------------------------------------------------
(* C5 *)

\* number of lines of a listing, the header among them, blank ones taken off
EntitiesExpected(out) ==
    Len(splitlines(out)) - 1 - Count(splitlines(out), BlankLine)

Listed(r) == r.status = 0 /\ splitlines(r.output) # <<>>

\* C5: a listing with a header (containers and images of another user, networks
\* of any user) of N lines gives N - 1 entities less the blank lines; a blank
\* line never ends setup.
C5_HeaderSkippedBlankTolerated ==
    /\ raised \notin {"networks", "images"}
    /\ (pc \in {"inventory", "containers"} /\ last # <<>> /\ Listed(last[1])) =>
            Len(Tagged(users[idx], "podman_network_inspect"))
                = EntitiesExpected(last[1].output)
    /\ (pc = "images" /\ Listed(last[1])) =>
            Len(containers) = EntitiesExpected(last[1].output)
    /\ (pc = "volumes" /\ Listed(last[1])) =>
            Len(images) = EntitiesExpected(last[1].output)

----------------------------------------------------------------------------
(* C6 *)

NoRepeat(q) == \A i, j \in DOMAIN q : q[i] = q[j] => i = j

\* the commands queued for the entities of users[idx - 1] are those of the lists
EmittedFromLists ==
    JustEmitted =>
        LET u == users[idx - 1] IN
        /\ PerEntity(u, "container")
             = ContainerSpecs(command, u, containers)
                 \o LogSpecs(command, u, containers, opts.logs)
        /\ Len(PerEntity(u, "image")) = 2 * Len(images)
        /\ PerEntity(u, "volume") = VolumeSpecs(command, u, volumes)

FailurePolicyInv ==
    /\ \A f \in failed : PerEntity(f[1], f[2]) = <<>>
    /\ NoRepeat(execLog)
    /\ EmittedFromLists

Fails(r) == r # <<>> /\ r[1].status # 0
Succeeds(r) == r # <<>> /\ r[1].status = 0

\* a listing step touches the list of its own kind alone, and a failed one
\* leaves it empty and goes on to the next step
FailurePolicyStep ==
    /\ (pc = "networks" /\ Fails(last')) =>
            /\ pc' \in {"inventory", "containers"}
            /\ plan' = Append(plan, NetListSpec(command, users[idx]))
            /\ UNCHANGED <<containers, images, volumes, idx>>
    /\ pc = "containers" =>
            /\ pc' = "images"
            /\ Fails(last') => containers' = <<>>
            /\ Succeeds(last') =>
                    Len(containers')
                        = Count(Rest(splitlines(last'[1].output)), HasText)
            /\ UNCHANGED <<images, volumes, plan, idx>>
    /\ (pc = "images" /\ pc' # "aborted") =>
            /\ pc' = "volumes"
            /\ Fails(last') => images' = <<>>
            /\ plan' = Append(plan, ImageListSpec(command, users[idx]))
            /\ UNCHANGED <<containers, idx>>
    /\ pc = "volumes" =>
            /\ pc' = "emit"
            /\ Fails(last') => volumes' = <<>>
            /\ Succeeds(last') =>
                    Len(volumes') = Count(splitlines(last'[1].output), HasText)
            /\ UNCHANGED <<containers, images, plan, idx>>
    /\ pc = "emit" => (pc' = "loop" /\ idx' = idx + 1)

\* C6: when a listing (network ls, ps / ps -a, images --no-trunc, volume ls)
\* returns a nonzero status for a user, no inspect, tree or logs command of
\* that kind is queued for the user; the other kinds of the user and the users
\* after are handled as they are when it succeeds; no command is run twice.
C6_FailurePolicy == []FailurePolicyInv /\ [][FailurePolicyStep]_vars

\* network ls failed for a user whose containers were still inspected, and
\* root, the next user, had its networks inspected
C6_Witness ==
    /\ pc = "done"
    /\ users = <<UserA, Root>>
    /\ <<UserA, "network">> \in failed
    /\ <<UserA, "container">> \notin failed
    /\ Tagged(UserA, "podman_container_inspect") # <<>>
    /\ Tagged(UserA, "podman_network_inspect") = <<>>
    /\ Tagged(Root, "podman_network_inspect") # <<>>

----------------------------------------------------------------------------
(* C7 *)

StartsWith(t, p) == Len(t) >= Len(p) /\ SubSeq(t, 1, Len(p)) = p

\* C7: the subdir of every queued command starts with the name of the user it
\* was queued for and a slash, so no two commands of two different users have
\* the same subdir, whatever entities the two users have in common.
C7_SubdirPerUser ==
    LET filed == {<<plan[i].owner, plan[i].subdir>> : i \in DOMAIN plan}
    IN  /\ \A f \in filed :
            /\ \E k \in DOMAIN users : users[k] = f[1]
            /\ StartsWith(f[2], f[1] \o <<"/">>)
        /\ \A f, g \in filed : f[1] # g[1] => f[2] # g[2]

\* root and another user both have a container c, inspected for each
C7_Witness ==
    /\ pc = "done"
    /\ \E i, j \in DOMAIN plan :
        /\ plan[i].cmd = Cmd(<<>>, <<"inspect ", "c">>)
        /\ plan[j].cmd = Cmd(Sudo(UserA), <<"inspect ", "c">>)
        /\ plan[i].owner = Root
        /\ plan[j].owner = UserA

----------------------------------------------------------------------------
(* C10 *)

SizeCmdsOf(u) == {i \in DOMAIN plan : plan[i].owner = u /\ IsSizeCmd(plan[i])}

\* C10: for every user processed, no ps -as command is queued without the size
\* option and exactly one with it, which has a priority and the subdir of the
\* user; no command of the fixed list and no inspect, tree or network command
\* has a priority.
C10_SizeListing ==
    /\ \A i \in DOMAIN users :
        LET sized == SizeCmdsOf(users[i]) IN
        IF Begun(i)
        THEN /\ Cardinality(sized) = IF opts.size THEN 1 ELSE 0
             /\ \A k \in sized :
                    /\ plan[k].priority # {}
                    /\ plan[k].subdir = users[i] \o <<"/">>
        ELSE sized = {}
    /\ \A i \in DOMAIN plan :
        (~IsSizeCmd(plan[i]) /\ ~IsLogsCmd(plan[i])) => plan[i].priority = {}

\* two users processed with the size option: one ps -as each, next to commands
\* without a priority
C10_Witness ==
    /\ pc = "done"
    /\ opts.size
    /\ Len(users) = 2
    /\ Begun(1) /\ Begun(2)
    /\ Cardinality(SizeCmdsOf(users[1])) = 1
    /\ Cardinality(SizeCmdsOf(users[2])) = 1
    /\ \E i \in DOMAIN plan : "podman_image_tree" \in plan[i].tags

----------------------------------------------------------------------------
(* C8 *)

LowerChar(c) ==
    CASE c = "P" -> "p" [] c = "A" -> "a" [] c = "S" -> "s" [] c = "K" -> "k"
      [] c = "E" -> "e" [] c = "Y" -> "y" [] c = "C" -> "c" [] c = "R" -> "r"
      [] c = "T" -> "t" [] OTHER -> c
Lower(t) == [i \in DOMAIN t |-> LowerChar(t[i])]

Sensitive(t) == \E k \in 1..3 : Contains(Lower(t), SensitiveWords[k])

\* the text is one entry KEY=VALUE" : the key up to the only =, the value up to
\* the only quote, which ends the text
OneEntry(t) ==
    /\ Cardinality({i \in DOMAIN t : t[i] = "="}) = 1
    /\ Cardinality({i \in DOMAIN t : t[i] = "\""}) = 1
    /\ t[Len(t)] = "\""
    /\ \A i \in DOMAIN t : t[i] # "\n"
KeyOf(t) == SubSeq(t, 1, (CHOOSE i \in DOMAIN t : t[i] = "=") - 1)

\* C8: a value is masked whenever its key contains pass, key or secret in any
\* letter case, KEY= and the closing quote kept; a text none of whose keys
\* contains one of the words is left as it is.
C8_MasksAnyLetterCase ==
    (passes = 1 /\ blobCmd) =>
        /\ ~Sensitive(orig) => blob = orig
        /\ (OneEntry(orig) /\ Sensitive(KeyOf(orig))) =>
                blob = KeyOf(orig) \o <<"=">> \o Mask \o <<"\"">>

----------------------------------------------------------------------------
(* C9 *)

\* C9: a second substitution pass over a text changes nothing: the text after
\* two passes is the text after one.
C9_Idempotent == [][(pc = "postproc" /\ passes >= 1) => blob' = blob]_vars

\* a value holding a sensitive word and an =, masked, then passed over again
C9_Witness ==
    /\ passes = 2
    /\ blobCmd
    /\ orig = <<"p", "a", "s", "s", "=", "p", "a", "s", "s", "=", "\"">>
    /\ blob = <<"p", "a", "s", "s", "=">> \o Mask \o <<"\"">>

====
